---- MODULE Spec2Model ----
(***************************************************************************)
(* Model of src/transformers/models/resnet/convert_resnet_to_pytorch.py:   *)
(* Tracker (forward-hook tracing), ModuleTransfer (positional weight       *)
(* transfer) and the conversion orchestration convert_weight(s)_and_push.  *)
(***************************************************************************)
EXTENDS Naturals, Sequences, FiniteSets, TLC

(***************************************************************************)
(* Bounds of the model.                                                    *)
(***************************************************************************)
\* longest forward program (number of child invocations) of a root module
MaxCalls == 3
\* how many times the harness invokes ModuleTransfer.__call__ on the same pair
MaxRuns == 2

(***************************************************************************)
(* The module trees.  A module is named by its path.  from_model is the    *)
(* source tree (timm style: a BatchNormAct2d owns its activation), our_model*)
(* the destination tree.  Trees share no module.                           *)
(***************************************************************************)
SrcRoot == "from_model"
DestRoot == "our_model"
SrcUnits == {"from_model.bn1", "from_model.bn2", "from_model.conv"}
DestUnits == {"our_model.conv", "our_model.norm1", "our_model.norm2"}
Modules == {SrcRoot, DestRoot, "from_model.bn2.act"} \cup SrcUnits \cup DestUnits
Sides == {"dest", "src"}
Root(s) == IF s = "dest" THEN DestRoot ELSE SrcRoot

\* type(m): the exact runtime class of a module
TypeOf(m) ==
    CASE m = "from_model" -> "ResNet"
      [] m = "our_model" -> "ResNetForImageClassification"
      [] m = "from_model.bn1" -> "BatchNorm2d"
      [] m = "from_model.bn2" -> "BatchNormAct2d"
      [] m = "from_model.bn2.act" -> "ReLU"
      [] m = "from_model.conv" -> "Conv2d"
      [] m = "our_model.conv" -> "Conv2d"
      [] m = "our_model.norm1" -> "BatchNorm2d"
      [] m = "our_model.norm2" -> "BatchNorm2d"
Types == {TypeOf(m) : m \in Modules}

\* isinstance(m, cls): BatchNormAct2d is a subclass of nn.BatchNorm2d
isinstance(m, cls) ==
    \/ TypeOf(m) = cls
    \/ TypeOf(m) = "BatchNormAct2d" /\ cls = "BatchNorm2d"

\* the registered children of a module, in registration order
Children(m) ==
    CASE m = "from_model" -> <<"from_model.conv", "from_model.bn1", "from_model.bn2">>
      [] m = "our_model" -> <<"our_model.conv", "our_model.norm1", "our_model.norm2">>
      [] m = "from_model.bn2" -> <<"from_model.bn2.act">>
      [] OTHER -> <<>>

\* the attribute name under which a child is registered in its parent
Name(m) ==
    CASE m = "from_model.bn1" -> "bn1"
      [] m = "from_model.bn2" -> "bn2"
      [] m = "from_model.bn2.act" -> "act"
      [] m = "from_model.conv" -> "conv"
      [] m = "our_model.conv" -> "conv"
      [] m = "our_model.norm1" -> "norm1"
      [] m = "our_model.norm2" -> "norm2"
      [] OTHER -> ""

Range(s) == {s[k] : k \in 1..Len(s)}

RECURSIVE Flatten(_)
Flatten(ss) == IF ss = <<>> THEN <<>> ELSE Head(ss) \o Flatten(Tail(ss))

\* m.modules(): the module and all its descendants, pre-order, each once
RECURSIVE modules(_)
modules(m) == <<m>> \o Flatten([k \in 1..Len(Children(m)) |-> modules(Children(m)[k])])

\* a tensor is its shape and its content; the content names where it was created
\* and the modules whose forward pass has updated it in place since, in order
Tensor(shape, m, key) == [shape |-> shape, val |-> [of |-> <<m, key>>, by |-> <<>>]]
BNShape == <<2>>
ConvShape == <<2, 2, 1, 1>>
NoParams == [k \in {} |-> Tensor(<<>>, "", "")]
\* the buffers a normalization leaf carries beside its learnable weight and bias
Buffers == {"running_mean", "running_var", "num_batches_tracked"}
BNParams(m) ==
    [k \in {"weight", "bias"} \cup Buffers |->
        Tensor(IF k = "num_batches_tracked" THEN <<>> ELSE BNShape, m, k)]
ConvParams(m) ==
    [k \in {"weight", "bias"} |-> Tensor(IF k = "weight" THEN ConvShape ELSE BNShape, m, k)]

\* the parameters and buffers each module owns directly, as constructed
InitParams ==
    [m \in Modules |->
        IF TypeOf(m) \in {"BatchNorm2d", "BatchNormAct2d"} THEN BNParams(m)
        ELSE IF TypeOf(m) = "Conv2d" THEN ConvParams(m)
        ELSE NoParams]

\* nn.Module.training: both models are constructed in training mode and the script
\* never switches a module to evaluation mode
training(m) == TRUE

\* every forward program a root may have: its children invoked in any order,
\* any of them repeatedly or not at all
RECURSIVE SeqsUpTo(_, _)
SeqsUpTo(S, n) ==
    IF n = 0 THEN {<<>>}
    ELSE LET shorter == SeqsUpTo(S, n - 1)
         IN shorter \cup {Append(q, x) : q \in {r \in shorter : Len(r) = n - 1}, x \in S}
Programs(units) == SeqsUpTo(units, MaxCalls)

(***************************************************************************)
(* State.                                                                  *)
(***************************************************************************)
VARIABLES
    mode,          \* "harness": ModuleTransfer driven directly; "single" / "all": the CLI
    src_calls,     \* forward program of from_model: the children it invokes, in order
    dest_calls,    \* forward program of our_model
    src_stop,      \* how many steps of from_model(x) run: all, or those before it raises
    dest_stop,     \* how many steps of our_model(x) run
    src_skip,      \* ModuleTransfer.src_skip
    dest_skip,     \* ModuleTransfer.dest_skip
    params,        \* module -> the parameters and buffers it owns (name -> tensor)
    hooks,         \* forward hooks installed: pairs <<tracker, module>>
    handles,       \* Tracker.handles, per tracker: the modules its handles point at
    traced,        \* Tracker.traced, per tracker
    src_traced,    \* local src_traced of ModuleTransfer.__call__
    dest_traced,   \* local dest_traced of ModuleTransfer.__call__
    idx,           \* position of the zip loop of ModuleTransfer.__call__
    error,         \* the exception in flight, if any
    pc,            \* program position
    run,           \* which invocation of ModuleTransfer.__call__ this is
    entry_params,  \* params as they were when the current __call__ was entered
    returned,      \* the trackers whose __call__ has returned
    model_name,    \* CLI --model_name ("" when omitted)
    todo,          \* architectures the convert-all loop has not reached yet
    name,          \* architecture being converted
    events,        \* what the run has done so far, in order
    config         \* local config of convert_weights_and_push ("unbound" until assigned)

transferVars == <<src_skip, dest_skip, params, hooks, handles, traced, src_traced,
                  dest_traced, idx, error, run, entry_params, returned>>
treeVars == <<src_calls, dest_calls, src_stop, dest_stop>>
cliVars == <<model_name, todo, name, events, config>>
vars == <<mode, pc, treeVars, transferVars, cliVars>>

Trackers == (1..MaxRuns) \X Sides
At(a, s) == [at |-> a, side |-> s]
NoError == [kind |-> "none", src_len |-> 0, dest_len |-> 0, at |-> 0]

(***************************************************************************)
(* torch.nn.Module as the script uses it.                                  *)
(***************************************************************************)
Prefixed(n, sd) == [key \in {<<n>> \o k : k \in DOMAIN sd} |-> sd[Tail(key)]]
Merge(f, g) == [k \in DOMAIN f \cup DOMAIN g |-> IF k \in DOMAIN f THEN f[k] ELSE g[k]]
RECURSIVE MergeAll(_)
MergeAll(ds) == IF ds = <<>> THEN [k \in {} |-> NoParams] ELSE Merge(Head(ds), MergeAll(Tail(ds)))

\* m.state_dict(): the module's own entries and, prefixed, its descendants'
RECURSIVE state_dict(_, _)
state_dict(m, P) ==
    MergeAll(<<[key \in {<<k>> : k \in DOMAIN P[m]} |-> P[m][key[1]]]>>
             \o [j \in 1..Len(Children(m)) |->
                    Prefixed(Name(Children(m)[j]), state_dict(Children(m)[j], P))])

Parent(d) == CHOOSE p \in Modules : d \in Range(Children(p))
RECURSIVE RelPath(_, _)
RelPath(m, d) == IF d = m THEN <<>> ELSE RelPath(m, Parent(d)) \o <<Name(d)>>

\* the entries of sd that m.load_state_dict(sd) copies: present and of the same shape
Loadable(m, sd, P) ==
    {key \in DOMAIN state_dict(m, P) :
        key \in DOMAIN sd /\ sd[key].shape = state_dict(m, P)[key].shape}

\* load_state_dict that copies the learnable parameters and leaves the buffered
\* running statistics behind
load_state_dict_parameters_only(m, sd, P) ==
    LET ok == Loadable(m, sd, P)
    IN [params |->
            [d \in Modules |->
                IF d \in Range(modules(m))
                THEN [k \in DOMAIN P[d] |->
                        IF RelPath(m, d) \o <<k>> \in ok /\ k \notin Buffers
                        THEN [shape |-> P[d][k].shape, val |-> sd[RelPath(m, d) \o <<k>>].val]
                        ELSE P[d][k]]
                ELSE P[d]],
        raised |-> ~(ok = DOMAIN state_dict(m, P) /\ DOMAIN sd = DOMAIN state_dict(m, P))]

\* m.load_state_dict(sd) (strict): every loadable entry is copied in place; the call
\* raises afterwards when a key is missing, unexpected or of another shape
load_state_dict(m, sd, P) ==
    LET ok == Loadable(m, sd, P)
    IN [params |->
            [d \in Modules |->
                IF d \in Range(modules(m))
                THEN [k \in DOMAIN P[d] |->
                        IF RelPath(m, d) \o <<k>> \in ok
                        THEN [shape |-> P[d][k].shape, val |-> sd[RelPath(m, d) \o <<k>>].val]
                        ELSE P[d][k]]
                ELSE P[d]],
        raised |-> ~(ok = DOMAIN state_dict(m, P) /\ DOMAIN sd = DOMAIN state_dict(m, P))]

\* the forward program of a module: a root runs its program, a BatchNormAct2d
\* its activation, every other module of the trees calls no submodule
CallsOf(m) ==
    IF m = SrcRoot THEN src_calls ELSE IF m = DestRoot THEN dest_calls ELSE Children(m)

\* the modules whose forward completes during m(x), in completion order
RECURSIVE Completions(_)
Completions(m) ==
    Flatten([j \in 1..Len(CallsOf(m)) |-> Completions(CallsOf(m)[j])]) \o <<m>>

(***************************************************************************)
(* Tracker.                                                                *)
(***************************************************************************)
\* the leaf test without the two isinstance cases
has_not_submodules_childless(m) == Len(modules(m)) = 1

has_not_submodules(m) ==
    Len(modules(m)) = 1 \/ isinstance(m, "Conv2d") \/ isinstance(m, "BatchNorm2d")

\* Tracker._forward_hook on tracker list tr for completed module m
forward_hook(tr, m) == IF has_not_submodules(m) THEN Append(tr, m) ELSE tr

\* what m(x) does, in order: a normalization in training mode counts the batch
\* (num_batches_tracked.add_(1)) and then folds the batch statistics into
\* running_mean and running_var (F.batch_norm); the module calls the submodules
\* of its forward program; at last its forward hooks fire
RECURSIVE Steps(_)
Steps(m) ==
    (IF isinstance(m, "BatchNorm2d") /\ training(m)
     THEN <<[op |-> "count", m |-> m], [op |-> "stats", m |-> m]>>
     ELSE <<>>)
    \o Flatten([j \in 1..Len(CallsOf(m)) |-> Steps(CallsOf(m)[j])])
    \o <<[op |-> "exit", m |-> m]>>

\* an in-place update of the named buffers of m by m's own forward pass
UpdateBuffers(P, m, keys) ==
    [P EXCEPT ![m] =
        [k \in DOMAIN P[m] |->
            IF k \in keys
            THEN [shape |-> P[m][k].shape,
                  val |-> [of |-> P[m][k].val.of, by |-> Append(P[m][k].val.by, m)]]
            ELSE P[m][k]]]

\* one step of a forward evaluation on r = [traced, params] with hooks H installed
RunStep(st, H, r) ==
    CASE st.op = "count" ->
           [traced |-> r.traced,
            params |-> UpdateBuffers(r.params, st.m, {"num_batches_tracked"})]
      [] st.op = "stats" ->
           [traced |-> r.traced,
            params |-> UpdateBuffers(r.params, st.m, {"running_mean", "running_var"})]
      [] st.op = "exit" ->
           [traced |-> [t \in DOMAIN r.traced |->
                           IF <<t, st.m>> \in H THEN forward_hook(r.traced[t], st.m)
                           ELSE r.traced[t]],
            params |-> r.params]

RECURSIVE RunSteps(_, _, _)
RunSteps(steps, H, r) ==
    IF steps = <<>> THEN r ELSE RunSteps(Tail(steps), H, RunStep(Head(steps), H, r))

\* m(x) with the hooks currently installed, from traces tr and parameters P
Evaluate(m, tr, P) == RunSteps(Steps(m), hooks, [traced |-> tr, params |-> P])

\* the steps of m(x), steps, before which the evaluation of root module m can raise: an
\* update of a normalization, the body of a leaf without update, the root's own tail
RaisePoints(m, steps) ==
    {n \in 0..(Len(steps) - 1) :
        \/ steps[n + 1].op \in {"count", "stats"}
        \/ /\ steps[n + 1].op = "exit"
           /\ (steps[n + 1].m = m \/ ~isinstance(steps[n + 1].m, "BatchNorm2d"))}

\* Tracker.parametrized
parametrized(tr, P) == SelectSeq(tr, LAMBDA m : DOMAIN state_dict(m, P) # {})

\* only the first handle (the root's) is removed
RemoveHandles_first(t) ==
    IF handles[t] = <<>> THEN hooks ELSE hooks \ {<<t, handles[t][1]>>}

\* handle.remove() for every handle of the tracker
RemoveHandles(t) == hooks \ {<<t, handles[t][k]>> : k \in 1..Len(handles[t])}

\* what m(x) can do for a root module m whose forward program is calls: run all
\* its steps, or raise.  An evaluation that raises is told by the calls it made:
\* it raises in the last call of its program or in the root's tail after it
StopChoices(m, calls) ==
    LET steps == Flatten([j \in 1..Len(calls) |-> Steps(calls[j])])
                 \o <<[op |-> "exit", m |-> m]>>
        from == IF calls = <<>> THEN 0
                ELSE Len(steps) - 1 - Len(Steps(calls[Len(calls)]))
    IN {Len(steps)} \cup {n \in RaisePoints(m, steps) : n >= from}

\* the hooks are registered.  from_model comes from the model zoo: what its forward
\* pass does with x shows when the source is traced for the first time, and is the
\* same in every later evaluation
Tracker_register(s) ==
    /\ pc = At("register", s)
    /\ handles' = [handles EXCEPT ![<<run, s>>] = @ \o modules(Root(s))]
    /\ hooks' = hooks \cup {<<(<<run, s>>), m>> : m \in Range(modules(Root(s)))}
    /\ pc' = At("forward", s)
    /\ IF s = "src" /\ run = 1
       THEN /\ \E calls \in Programs(SrcUnits) :
                 /\ src_calls' = calls
                 /\ src_stop' \in StopChoices(SrcRoot, calls)
            /\ UNCHANGED <<dest_calls, dest_stop>>
       ELSE UNCHANGED treeVars
    /\ UNCHANGED <<mode, cliVars, src_skip, dest_skip, params, traced,
                   src_traced, dest_traced, idx, error, run, entry_params, returned>>

\* self.module(x): the evaluation runs to its end, or it raises on the way; then
\* the handles are not removed and the exception leaves __call__.  Whether and
\* where an evaluation raises depends on the module and on x alone
Tracker_forward(s) ==
    /\ pc = At("forward", s)
    /\ LET n == IF s = "dest" THEN dest_stop ELSE src_stop IN
         LET steps == Steps(Root(s))
             r == RunSteps(SubSeq(steps, 1, n), hooks,
                           [traced |-> traced, params |-> params])
         IN /\ traced' = r.traced
            /\ params' = r.params
            /\ IF n = Len(steps)
               THEN /\ pc' = At("remove", s)
                    /\ UNCHANGED error
               ELSE /\ error' = [kind |-> "forward", src_len |-> 0, dest_len |-> 0, at |-> n]
                    /\ pc' = At("raised", s)
    /\ UNCHANGED <<mode, treeVars, cliVars, src_skip, dest_skip, hooks, handles,
                   src_traced, dest_traced, idx, run, entry_params, returned>>

\* the handles are removed, the tracker is returned and its parametrized view
\* is bound to the caller's local
Tracker_remove(s) ==
    /\ pc = At("remove", s)
    /\ hooks' = RemoveHandles(<<run, s>>)
    /\ IF s = "dest"
       THEN /\ dest_traced' = parametrized(traced[<<run, s>>], params)
            /\ pc' = At("register", "src")
            /\ UNCHANGED src_traced
       ELSE /\ src_traced' = parametrized(traced[<<run, s>>], params)
            /\ pc' = At("filter", "-")
            /\ UNCHANGED dest_traced
    /\ returned' = returned \cup {<<run, s>>}
    /\ UNCHANGED <<mode, treeVars, cliVars, src_skip, dest_skip, params, handles, traced,
                   idx, error, run, entry_params>>

(***************************************************************************)
(* ModuleTransfer.__call__                                                 *)
(***************************************************************************)
\* the filter with isinstance in place of the exact type
FilterSkip_isinstance(seq, skip) ==
    SelectSeq(seq, LAMBDA m : ~\E c \in skip : isinstance(m, c))

\* list(filter(lambda x: type(x) not in skip, seq))
FilterSkip(seq, skip) == SelectSeq(seq, LAMBDA m : TypeOf(m) \notin skip)

Transfer_filter ==
    /\ pc = At("filter", "-")
    /\ src_traced' = FilterSkip(src_traced, src_skip)
    /\ dest_traced' = FilterSkip(dest_traced, dest_skip)
    /\ pc' = At("check", "-")
    /\ UNCHANGED <<mode, treeVars, cliVars, src_skip, dest_skip, params, hooks, handles,
                   traced, idx, error, run, entry_params, returned>>

LengthsDiffer == Len(dest_traced) # Len(src_traced)

Transfer_check ==
    /\ pc = At("check", "-")
    /\ IF LengthsDiffer
       THEN /\ error' = [kind |-> "count", src_len |-> Len(src_traced),
                         dest_len |-> Len(dest_traced), at |-> 0]
            /\ pc' = At("raised", "-")
            /\ UNCHANGED idx
       ELSE /\ idx' = 1
            /\ pc' = At("copy", "-")
            /\ UNCHANGED error
    /\ UNCHANGED <<mode, treeVars, cliVars, src_skip, dest_skip, params, hooks, handles,
                   traced, src_traced, dest_traced, run, entry_params, returned>>

\* a copy that restores the destination as it was on entry when a pair fails
CopyResult_rollback ==
    LET r == load_state_dict(dest_traced[idx], state_dict(src_traced[idx], params), params)
    IN IF r.raised THEN [params |-> entry_params, raised |-> TRUE] ELSE r

\* how many pairs zip(dest_traced, src_traced) yields
ZipLen == IF Len(dest_traced) < Len(src_traced) THEN Len(dest_traced) ELSE Len(src_traced)

\* dest_m.load_state_dict(src_m.state_dict()) for the pair at position idx
CopyResult ==
    load_state_dict(dest_traced[idx], state_dict(src_traced[idx], params), params)

Transfer_copy ==
    /\ pc = At("copy", "-")
    /\ idx <= ZipLen
    /\ params' = CopyResult.params
    /\ IF CopyResult.raised
       THEN /\ error' = [kind |-> "load", src_len |-> Len(src_traced),
                         dest_len |-> Len(dest_traced), at |-> idx]
            /\ pc' = At("raised", "-")
            /\ UNCHANGED idx
       ELSE /\ idx' = idx + 1
            /\ UNCHANGED <<pc, error>>
    /\ UNCHANGED <<mode, treeVars, cliVars, src_skip, dest_skip, hooks, handles, traced,
                   src_traced, dest_traced, run, entry_params, returned>>

Transfer_return ==
    /\ pc = At("copy", "-")
    /\ idx > ZipLen
    /\ pc' = At("returned", "-")
    /\ UNCHANGED <<mode, treeVars, cliVars, transferVars>>

Transfer ==
    \/ \E s \in Sides : Tracker_register(s) \/ Tracker_forward(s) \/ Tracker_remove(s)
    \/ Transfer_filter \/ Transfer_check \/ Transfer_copy \/ Transfer_return

(***************************************************************************)
(* A caller that holds on to the models and the trackers: it may call the  *)
(* same ModuleTransfer again, and may evaluate either model again.         *)
(***************************************************************************)
Finished == pc.at \in {"returned", "raised"}

Call_again ==
    /\ mode = "harness" /\ Finished
    /\ run < MaxRuns
    /\ run' = run + 1
    /\ entry_params' = params
    /\ src_traced' = <<>> /\ dest_traced' = <<>> /\ idx' = 0 /\ error' = NoError
    /\ pc' = At("register", "dest")
    /\ UNCHANGED <<mode, treeVars, cliVars, src_skip, dest_skip, params, hooks, handles,
                   traced, returned>>

\* exclude sets a caller may pass
SkipChoices(s) ==
    IF s = "src" THEN {{"BatchNorm2d"}, {"BatchNormAct2d"}} ELSE {{}, {"Conv2d"}}

FreshTransfer ==
    /\ params = InitParams /\ entry_params = InitParams
    /\ hooks = {}
    /\ handles = [t \in Trackers |-> <<>>]
    /\ traced = [t \in Trackers |-> <<>>]
    /\ src_traced = <<>> /\ dest_traced = <<>> /\ idx = 0 /\ error = NoError
    /\ returned = {}
    /\ run = 1

NoCLI == model_name = "" /\ todo = <<>> /\ name = "" /\ events = <<>> /\ config = "unbound"

\* from_model has not been evaluated yet: its forward program is not on record
SrcNotEvaluated == src_calls = <<>> /\ src_stop = 1

\* ModuleTransfer(src=from_model, dest=our_model), as the script builds it, on any
\* pair of forward programs, complete or raising; the caller may call it again
Init ==
    /\ mode = "harness"
    /\ SrcNotEvaluated
    /\ dest_calls \in Programs(DestUnits)
    /\ dest_stop \in StopChoices(DestRoot, dest_calls)
    /\ src_skip = {} /\ dest_skip = {}
    /\ FreshTransfer
    /\ pc = At("register", "dest")
    /\ NoCLI

Next == Transfer \/ Call_again

Spec == Init /\ [][Next]_vars

\* ModuleTransfer(src=from_model, dest=our_model, src_skip=..., dest_skip=...),
\* called once; our_model runs each of its layers once, in order
InitSkip ==
    /\ mode = "harness"
    /\ SrcNotEvaluated
    /\ dest_calls = Children(DestRoot)
    /\ dest_stop \in StopChoices(DestRoot, dest_calls)
    /\ src_skip \in SkipChoices("src")
    /\ dest_skip \in SkipChoices("dest")
    /\ FreshTransfer
    /\ pc = At("register", "dest")
    /\ NoCLI

SpecSkip == InitSkip /\ [][Transfer]_vars

(***************************************************************************)
(* convert_weights_and_push and convert_weight_and_push.                   *)
(***************************************************************************)
\* the keys of names_to_config, in insertion order
Names == <<"resnet18", "resnet26", "resnet34", "resnet50", "resnet101", "resnet152">>

\* --model_name takes any string; "" stands for the option left out
ModelNameArgs == Range(Names) \cup {"", "resnet200"}

Event(e) == [ev |-> e, name |-> name]
Raise(kind) == [kind |-> kind, src_len |-> 0, dest_len |-> 0, at |-> 0]

\* line 151, and the lookup names_to_config[model_name] of line 152
cli_dispatch ==
    /\ mode = "cli" /\ pc = At("main", "-")
    /\ IF model_name # ""
       THEN IF model_name \in Range(Names)
            THEN /\ name' = model_name
                 /\ pc' = At("build", "-")
                 /\ UNCHANGED error
            ELSE /\ error' = Raise("KeyError")
                 /\ pc' = At("exit_error", "-")
                 /\ UNCHANGED name
       ELSE /\ pc' = At("loop", "-")
            /\ UNCHANGED <<name, error>>
    /\ UNCHANGED <<mode, treeVars, model_name, todo, events, config, src_skip, dest_skip,
                   params, hooks, handles, traced, src_traced, dest_traced, idx, run,
                   entry_params, returned>>

\* for name, config in names_to_config.items()
cli_loop ==
    /\ mode = "cli" /\ pc = At("loop", "-")
    /\ IF todo = <<>>
       THEN /\ pc' = At("return", "-")
            /\ UNCHANGED <<name, config, todo>>
       ELSE /\ name' = Head(todo)
            /\ config' = Head(todo)
            /\ todo' = Tail(todo)
            /\ pc' = At("build", "-")
    /\ UNCHANGED <<mode, treeVars, model_name, events, transferVars>>

\* both models are built anew and ModuleTransfer(src=from_model, dest=our_model) is
\* called on them.  our_model runs each of its layers once, in order; from_model
\* comes from the model zoo and may run any program
cli_build ==
    /\ mode = "cli" /\ pc = At("build", "-")
    /\ src_calls' = <<>> /\ src_stop' = 1
    /\ dest_calls' = Children(DestRoot)
    /\ dest_stop' \in StopChoices(DestRoot, Children(DestRoot))
    /\ src_skip' = {} /\ dest_skip' = {}
    /\ params' = InitParams /\ entry_params' = InitParams
    /\ hooks' = {}
    /\ handles' = [t \in Trackers |-> <<>>]
    /\ traced' = [t \in Trackers |-> <<>>]
    /\ src_traced' = <<>> /\ dest_traced' = <<>> /\ idx' = 0 /\ run' = 1
    /\ returned' = {}
    /\ events' = IF model_name # "" THEN Append(events, Event("converting")) ELSE events
    /\ pc' = At("register", "dest")
    /\ UNCHANGED <<mode, model_name, todo, name, config, error>>

\* an exception of module_transfer(x) is caught nowhere
cli_raise ==
    /\ mode = "cli" /\ pc.at = "raised"
    /\ events' = Append(events, Event("transfer_failed"))
    /\ pc' = At("exit_error", "-")
    /\ UNCHANGED <<mode, treeVars, model_name, todo, name, config, transferVars>>

\* the check with the assert statement compiled away: a mismatch goes on to publish
cli_check_logits_unasserted ==
    /\ mode = "cli" /\ pc = At("returned", "-")
    /\ LET src_out == Evaluate(SrcRoot, traced, params)
           dest_out == Evaluate(DestRoot, src_out.traced, src_out.params)
       IN traced' = dest_out.traced /\ params' = dest_out.params
    /\ \E allclose \in BOOLEAN :
         events' = Append(events, Event(IF allclose THEN "closeness_ok" ELSE "check_failed"))
    /\ pc' = At("push_model", "-")
    /\ UNCHANGED <<mode, treeVars, model_name, todo, name, config, src_skip, dest_skip,
                   hooks, handles, src_traced, dest_traced, idx, error, run, entry_params, returned>>

\* assert torch.allclose(from_model(x), our_model(x).logits): both models are
\* evaluated once more, with whatever hooks they carry
cli_check_logits ==
    /\ mode = "cli" /\ pc = At("returned", "-")
    /\ LET src_out == Evaluate(SrcRoot, traced, params)
           dest_out == Evaluate(DestRoot, src_out.traced, src_out.params)
       IN traced' = dest_out.traced /\ params' = dest_out.params
    /\ \E allclose \in BOOLEAN :
         IF allclose
         THEN /\ events' = Append(events, Event("closeness_ok"))
              /\ pc' = At("push_model", "-")
              /\ UNCHANGED error
         ELSE /\ events' = Append(events, Event("check_failed"))
              /\ error' = Raise("AssertionError")
              /\ pc' = At("exit_error", "-")
    /\ UNCHANGED <<mode, treeVars, model_name, todo, name, config, src_skip, dest_skip,
                   hooks, handles, src_traced, dest_traced, idx, run, entry_params, returned>>

\* our_model.push_to_hub(...): the publish sink accepts or fails
cli_push_model ==
    /\ mode = "cli" /\ pc = At("push_model", "-")
    /\ \E accepted \in BOOLEAN :
         IF accepted
         THEN /\ events' = Append(events, Event("push_model"))
              /\ pc' = IF model_name # "" THEN At("done", "-") ELSE At("push_extractor", "-")
              /\ UNCHANGED error
         ELSE /\ events' = Append(events, Event("publish_failed"))
              /\ error' = Raise("HubError")
              /\ pc' = At("exit_error", "-")
    /\ UNCHANGED <<mode, treeVars, model_name, todo, name, config, src_skip, dest_skip,
                   params, hooks, handles, traced, src_traced, dest_traced, idx, run,
                   entry_params, returned>>

\* lines 171-176, in the loop of convert_weights_and_push only
cli_push_extractor ==
    /\ mode = "cli" /\ pc = At("push_extractor", "-")
    /\ \E accepted \in BOOLEAN :
         IF accepted
         THEN /\ events' = Append(events, Event("push_extractor"))
              /\ pc' = At("loop", "-")
              /\ UNCHANGED error
         ELSE /\ events' = Append(events, Event("publish_failed"))
              /\ error' = Raise("HubError")
              /\ pc' = At("exit_error", "-")
    /\ UNCHANGED <<mode, treeVars, model_name, todo, name, config, src_skip, dest_skip,
                   params, hooks, handles, traced, src_traced, dest_traced, idx, run,
                   entry_params, returned>>

\* print("Done!") and the return of convert_weight_and_push
cli_done ==
    /\ mode = "cli" /\ pc = At("done", "-")
    /\ events' = Append(events, Event("done"))
    /\ pc' = At("return", "-")
    /\ UNCHANGED <<mode, treeVars, model_name, todo, name, config, transferVars>>

\* return config, expected_shape: config is bound by the for statement only
cli_return ==
    /\ mode = "cli" /\ pc = At("return", "-")
    /\ IF config = "unbound"
       THEN /\ error' = Raise("UnboundLocalError")
            /\ pc' = At("exit_error", "-")
       ELSE /\ pc' = At("exit_ok", "-")
            /\ UNCHANGED error
    /\ UNCHANGED <<mode, treeVars, cliVars, src_skip, dest_skip, params, hooks, handles,
                   traced, src_traced, dest_traced, idx, run, entry_params, returned>>

InitCLI ==
    /\ mode = "cli"
    /\ model_name \in ModelNameArgs
    /\ todo = Names /\ name = "" /\ events = <<>> /\ config = "unbound"
    /\ SrcNotEvaluated
    /\ dest_calls = <<>> /\ dest_stop = 1
    /\ src_skip = {} /\ dest_skip = {}
    /\ FreshTransfer
    /\ pc = At("main", "-")

NextCLI ==
    \/ cli_dispatch \/ cli_loop \/ cli_build
    \/ Transfer
    \/ cli_raise \/ cli_check_logits \/ cli_push_model \/ cli_push_extractor
    \/ cli_done \/ cli_return

SpecCLI == InitCLI /\ [][NextCLI]_vars

(***************************************************************************)
(* Vocabulary of the properties.                                           *)
(***************************************************************************)
\* a leaf unit: no children, or of kind convolution / normalization
IsLeafUnit(m) ==
    Children(m) = <<>> \/ TypeOf(m) \in {"Conv2d", "BatchNorm2d", "BatchNormAct2d"}
\* a parametrized leaf: a leaf unit whose parameter mapping (its own entries and
\* those of the modules it contains) is not empty
IsParametrizedLeaf(m) ==
    IsLeafUnit(m) /\ \E d \in Range(modules(m)) : DOMAIN params[d] # {}
ParametrizedLeaves(s) == {m \in Range(modules(Root(s))) : IsParametrizedLeaf(m)}

\* the trackers of the transfer call in progress
Current == {t \in Trackers : t[1] = run}

\* the trace call of tracker t has returned (a call whose forward evaluation
\* raised has not)
Returned(t) == t \in returned

\* the trace call of tracker t has just returned to ModuleTransfer.__call__
JustReturned(t) ==
    /\ Returned(t)
    /\ \/ t = <<run, "dest">> /\ pc = At("register", "src")
       \/ t = <<run, "src">> /\ pc = At("filter", "-")

\* how often x occurs in a sequence
Count(seq, x) == Cardinality({k \in 1..Len(seq) : seq[k] = x})

\* the two leaves hold the same parameter mapping: same names, shapes and contents
SameMapping(d, s) == state_dict(d, params) = state_dict(s, params)

\* the module holds what it held when the current transfer call was entered
Untouched(d) == state_dict(d, params) = state_dict(d, entry_params)

\* the leaf holds what it held when the copy loop of the current transfer call
\* started, that is after the two trace calls: no copy has written to it
NotCopied(d) ==
    state_dict(d, params) = state_dict(d, Evaluate(DestRoot, traced, entry_params).params)

\* two destination leaves share storage: the same module, or one contains the other
Overlap(a, b) == Range(modules(a)) \cap Range(modules(b)) # {}

\* the filters have run: src_traced and dest_traced are the filtered sequences
Filtered == pc \in {At("check", "-"), At("copy", "-"), At("returned", "-"), At("raised", "-")}

(***************************************************************************)
(* C7 as stated: when a trace call returns, the parametrized-leaf sequence  *)
(* of the trace is as long as the tree has parametrized leaf units.        *)
(***************************************************************************)
C7_LengthIsLeafCount ==
    \A t \in Current :
        JustReturned(t) =>
            Len(parametrized(traced[t], params)) = Cardinality(ParametrizedLeaves(t[2]))

(***************************************************************************)
(* C7 amended: when a trace call returns, the parametrized-leaf sequence   *)
(* of the trace is the sequence of forward completions restricted to       *)
(* parametrized leaf units, one entry per completion and in completion     *)
(* order; its length is the number of parametrized leaf units when each of *)
(* them completes exactly once.                                            *)
(***************************************************************************)
C7_TraceIsCompletions ==
    \A t \in Current :
        JustReturned(t) =>
            /\ parametrized(traced[t], params)
                 = SelectSeq(Completions(Root(t[2])), IsParametrizedLeaf)
            /\ (\A m \in ParametrizedLeaves(t[2]) : Count(CallsOf(Root(t[2])), m) = 1)
                 => Len(parametrized(traced[t], params))
                      = Cardinality(ParametrizedLeaves(t[2]))

\* a returned source trace in which the wrapped normalization (a leaf unit with a
\* child) and every other parametrized leaf completed exactly once
C7_Witness ==
    /\ JustReturned(<<1, "src">>)
    /\ \A m \in ParametrizedLeaves("src") : Count(src_calls, m) = 1
    /\ Len(parametrized(traced[<<1, "src">>], params)) = 3

(***************************************************************************)
(* C6: once a trace call has returned, no module carries an observer that  *)
(* call installed and a later fresh trace of the same model yields the     *)
(* same sequence; and whenever the caller has control again (the transfer  *)
(* call is over), a forward evaluation of either model adds nothing to a   *)
(* returned trace.                                                         *)
(***************************************************************************)
C6_NoObserverLeft ==
    /\ \A t \in Trackers :
         Returned(t) =>
            /\ \A m \in Modules : <<t, m>> \notin hooks
            /\ \A u \in Trackers :
                 (Returned(u) /\ u[2] = t[2]) => traced[u] = traced[t]
    /\ Finished =>
         \A s \in Sides :
            LET after == Evaluate(Root(s), traced, params).traced
            IN \A t \in Trackers : (Returned(t) /\ t[2] = s) => after[t] = traced[t]

\* the first trace of the source returned a sequence holding a leaf with a child
\* and that child; the model was evaluated again and a fresh trace of it returned
C6_Witness ==
    /\ Returned(<<1, "src">>) /\ Returned(<<2, "src">>)
    /\ traced[<<2, "src">>] = <<"from_model.conv", "from_model.bn2.act", "from_model.bn2">>

(***************************************************************************)
(* C9: a kind in the source exclude set removes exactly the leaves of that *)
(* kind from the source sequence: the filtered length is the unfiltered    *)
(* length minus the occurrences of the excluded kinds, the remaining       *)
(* leaves keep their order, and the destination sequence loses only the    *)
(* kinds of the destination exclude set.                                   *)
(***************************************************************************)
Occurrences(seq, skip) == Cardinality({k \in 1..Len(seq) : TypeOf(seq[k]) \in skip})

RECURSIVE Without(_, _)
Without(seq, skip) ==
    IF seq = <<>> THEN <<>>
    ELSE IF TypeOf(Head(seq)) \in skip THEN Without(Tail(seq), skip)
    ELSE <<Head(seq)>> \o Without(Tail(seq), skip)

C9_ExcludeRemovesExactlyThatKind ==
    Filtered =>
        LET src_seq == parametrized(traced[<<run, "src">>], params)
            dest_seq == parametrized(traced[<<run, "dest">>], params)
        IN /\ Len(src_traced) = Len(src_seq) - Occurrences(src_seq, src_skip)
           /\ src_traced = Without(src_seq, src_skip)
           /\ Len(dest_traced) = Len(dest_seq) - Occurrences(dest_seq, dest_skip)
           /\ dest_traced = Without(dest_seq, dest_skip)

\* BatchNorm2d is excluded on the source side: the traced BatchNorm2d leaf is gone,
\* the BatchNormAct2d leaf (another runtime kind) and the destination's
\* BatchNorm2d stay
C9_Witness ==
    /\ Filtered
    /\ src_skip = {"BatchNorm2d"} /\ dest_skip = {}
    /\ Count(traced[<<run, "src">>], "from_model.bn1") = 1
    /\ src_traced = <<"from_model.conv", "from_model.bn2">>
    /\ "our_model.norm1" \in Range(dest_traced)

(***************************************************************************)
(* C2 as stated: whenever the filtered sequences differ in length the      *)
(* transfer has failed with the error that carries both lengths, and no    *)
(* parameter or buffer of the destination has changed since the call was   *)
(* entered.  The tracing forward passes run in training mode and move the  *)
(* running statistics of the normalization leaves, so this does not hold.  *)
(***************************************************************************)
C2_MismatchFailsUntouched ==
    (pc \in {At("copy", "-"), At("returned", "-"), At("raised", "-")}
       /\ Len(src_traced) # Len(dest_traced)) =>
        /\ pc.at = "raised"
        /\ error.kind = "count"
        /\ error.src_len = Len(src_traced) /\ error.dest_len = Len(dest_traced)
        /\ Untouched(DestRoot)

(***************************************************************************)
(* C8 as stated: a second transfer with the same inputs leaves every       *)
(* destination parameter as the first transfer left it.  The source's      *)
(* running statistics move with every trace and are copied again, so this  *)
(* does not hold.                                                          *)
(***************************************************************************)
C8_Idempotent ==
    (Finished /\ run > 1) => state_dict(DestRoot, params) = state_dict(DestRoot, entry_params)

(***************************************************************************)
(* C1 as stated: after a transfer that completed without error, the        *)
(* destination leaf at every position holds exactly the parameter mapping  *)
(* of the source leaf at the same position.                                *)
(***************************************************************************)
C1_EveryPositionHoldsSource ==
    pc.at = "returned" =>
        \A k \in 1..Len(dest_traced) : SameMapping(dest_traced[k], src_traced[k])

(***************************************************************************)
(* C1 amended: after a transfer that completed without error, the          *)
(* destination leaf at position k holds exactly the parameter mapping of   *)
(* the source leaf at position k, for every position k whose destination   *)
(* leaf is not written again at a later position (the same leaf, or a leaf *)
(* that contains it or is contained in it); a destination leaf that occurs *)
(* several times keeps what its last position copied.                      *)
(***************************************************************************)
LastWrite(seq, k) == \A j \in (k + 1)..Len(seq) : ~Overlap(seq[j], seq[k])

C1_LastPositionHoldsSource ==
    pc.at = "returned" =>
        /\ Len(dest_traced) = Len(src_traced)
        /\ \A k \in 1..Len(dest_traced) :
             LastWrite(dest_traced, k) => SameMapping(dest_traced[k], src_traced[k])

\* a completed transfer over three positions that paired a destination BatchNorm2d
\* with the source's BatchNormAct2d (another kind, another name)
C1_Witness ==
    /\ pc.at = "returned"
    /\ src_traced = <<"from_model.conv", "from_model.bn2", "from_model.bn1">>
    /\ dest_traced = <<"our_model.conv", "our_model.norm1", "our_model.norm2">>
    /\ params["our_model.norm1"]["running_mean"].val.of = <<"from_model.bn2", "running_mean">>
    /\ params["our_model.norm1"]["running_mean"] = params["from_model.bn2"]["running_mean"]

(***************************************************************************)
(* C10 as stated: when the copy fails at position i, every destination     *)
(* leaf below i holds the source values of its position and every          *)
(* destination leaf above i is unchanged.                                  *)
(***************************************************************************)
C10_PartialTransfer ==
    (pc.at = "raised" /\ error.kind = "load") =>
        /\ \A k \in 1..(error.at - 1) : SameMapping(dest_traced[k], src_traced[k])
        /\ \A k \in (error.at + 1)..Len(dest_traced) : NotCopied(dest_traced[k])

(***************************************************************************)
(* C10 amended: when the copy fails at position i the transfer stops with  *)
(* that error and nothing is rolled back: a destination leaf below i that  *)
(* is not written again at a later position up to i holds the source       *)
(* values of its position, and a destination leaf above i that is not also *)
(* written at a position up to i is unchanged.                             *)
(***************************************************************************)
C10_PartialTransferDistinct ==
    (pc.at = "raised" /\ error.kind = "load") =>
        /\ \A k \in 1..(error.at - 1) :
             LastWrite(SubSeq(dest_traced, 1, error.at), k)
                => SameMapping(dest_traced[k], src_traced[k])
        /\ \A k \in (error.at + 1)..Len(dest_traced) :
             (\A j \in 1..error.at : ~Overlap(dest_traced[j], dest_traced[k]))
                => NotCopied(dest_traced[k])

\* the copy failed at the second of three distinct leaves: the first holds source
\* values, the second was partly overwritten, the third still holds its own
C10_Witness ==
    /\ pc.at = "raised" /\ error.kind = "load" /\ error.at = 2
    /\ Len(dest_traced) = 3
    /\ Cardinality(Range(dest_traced)) = 3
    /\ SameMapping(dest_traced[1], src_traced[1])
    /\ ~NotCopied(dest_traced[2])
    /\ NotCopied(dest_traced[3])

(***************************************************************************)
(* The run of the script, as its log of events tells it.                   *)
(***************************************************************************)
Happened(e, n) == \E k \in 1..Len(events) : events[k] = [ev |-> e, name |-> n]
Publishes == {"push_model", "push_extractor"}
StepFailures == {"forward", "count", "load", "AssertionError", "HubError"}

(***************************************************************************)
(* C3: a run ends with an error only if a transfer, an equivalence check   *)
(* or a publish step failed (or the name given is not in the table): a run *)
(* whose conversions all succeed exits normally, with --model_name given   *)
(* and with --model_name omitted.                                          *)
(***************************************************************************)
C3_SuccessExitsNormally ==
    pc.at = "exit_error" => error.kind \in StepFailures \cup {"KeyError"}

(***************************************************************************)
(* C4: when the run comes to its end, for every architecture whose         *)
(* closeness check passed both the model and its feature extractor were    *)
(* published, in the single-architecture path and in the convert-all path. *)
(***************************************************************************)
C4_ModelAndExtractorPublished ==
    pc.at = "return" =>
        \A n \in Range(Names) :
            Happened("closeness_ok", n) =>
                Happened("push_model", n) /\ Happened("push_extractor", n)

(***************************************************************************)
(* C5: nothing is published for an architecture unless its own closeness   *)
(* check has passed before, and once a transfer or a closeness check has   *)
(* failed the run does nothing more: no publish, no further conversion.    *)
(***************************************************************************)
C5_NoPublishWithoutCheck ==
    \A k \in 1..Len(events) :
        /\ events[k].ev \in Publishes =>
             \E j \in 1..(k - 1) : events[j] = [ev |-> "closeness_ok", name |-> events[k].name]
        /\ events[k].ev \in {"transfer_failed", "check_failed"} =>
             k = Len(events) /\ pc.at = "exit_error"

\* the convert-all run published resnet18 whole and stopped at resnet26, whose
\* closeness check failed
C5_Witness ==
    /\ pc.at = "exit_error"
    /\ Happened("push_extractor", "resnet18")
    /\ Happened("check_failed", "resnet26")
    /\ todo # <<>>
====
